---- MODULE Spec2Model ----
(***************************************************************************)
(* Model of src/main.rs: the PopApiError taxonomy, its SCALE               *)
(* (parity_scale_codec) derived Encode/Decode, and the two helpers         *)
(* encode_and_decode_to_u32 / encode_and_decode_to_pop_api_error.          *)
(*                                                                         *)
(* A taxonomy value is a flat record                                       *)
(*   [variant, sub, leaf, f]                                               *)
(* variant : the PopApiError variant name                                  *)
(* sub     : the variant of the nested enum (TokenError, ArithmeticError,  *)
(*           TransactionalError, UseCaseError), "" when there is none      *)
(* leaf    : the FungiblesError variant under UseCase::Fungibles, or ""    *)
(* f       : the u8 fields in declaration order                            *)
(***************************************************************************)
EXTENDS Integers, Sequences, FiniteSets, TLC

VARIABLES start, origError, origValue, pc, calls,
          error, serialized, encoded, value, wire

vars == <<start, origError, origValue, pc, calls,
          error, serialized, encoded, value, wire>>

\* ---------------------------------------------------------------- bounds
\* First bytes (top-level discriminants) range over 0..MaxTop and 255.
MaxTop == 16
\* Every other byte ranges over 0..MaxPayload and 255.
MaxPayload == 9
\* Number of helper calls chained in one run.
MaxCalls == 2

U8Max == 255
WireLen == 4

TopBytes == (0..MaxTop) \cup {U8Max}
PayloadBytes == (0..MaxPayload) \cup {U8Max}

\* ------------------------------------------------------------- taxonomy
Val(variant, sub, leaf, f) ==
  [variant |-> variant, sub |-> sub, leaf |-> leaf, f |-> f]

\* enum PopApiError, in declaration order
PopApiErrorVariants ==
  << "Other", "CannotLookup", "BadOrigin", "Module", "ConsumerRemaining",
     "NoProviders", "TooManyConsumers", "Token", "Arithmetic",
     "Transactional", "Exhausted", "Corruption", "Unavailable",
     "RootNotAllowed", "UseCase", "Unspecified" >>

\* enum UseCaseError
UseCaseErrorVariants == << "Fungibles" >>

\* enum FungiblesError
FungiblesErrorVariants ==
  << "AssetNotLive", "BelowMinimum", "InsufficientAllowance",
     "InsufficientBalance", "InUse", "MinBalanceZero", "NoAccount",
     "NoPermission", "Unknown" >>

\* enum TokenError
TokenErrorVariants == << "Unknown" >>

\* enum ArithmeticError
ArithmeticErrorVariants == << "Overflow" >>

\* enum TransactionalError
TransactionalErrorVariants == << "MaxLayersReached" >>

UnitVariants ==
  { "CannotLookup", "BadOrigin", "ConsumerRemaining", "NoProviders",
    "TooManyConsumers", "Exhausted", "Corruption", "Unavailable",
    "RootNotAllowed" }

Other(x) == Val("Other", "", "", <<x>>)
Unit(name) == Val(name, "", "", <<>>)
\* struct ModuleError { index, error } inside PopApiError::Module
Module(index, err) == Val("Module", "", "", <<index, err>>)
Token(t) == Val("Token", t, "", <<>>)
Arithmetic(a) == Val("Arithmetic", a, "", <<>>)
Transactional(t) == Val("Transactional", t, "", <<>>)
UseCaseFungibles(fe) == Val("UseCase", "Fungibles", fe, <<>>)
Unspecified(dispatch_error_index, error_index, err) ==
  Val("Unspecified", "", "", <<dispatch_error_index, error_index, err>>)

Range(s) == { s[i] : i \in 1..Len(s) }

\* Position of a variant name in a declaration list, zero-based.
IndexOf(s, name) == (CHOOSE i \in 1..Len(s) : s[i] = name) - 1

\* The constructible values, payload bytes drawn from the bounded byte sets.
PopApiErrors ==
  { Other(x) : x \in PayloadBytes }
  \cup { Unit(n) : n \in UnitVariants }
  \cup { Module(i, e) : i \in PayloadBytes, e \in PayloadBytes }
  \cup { Token(t) : t \in Range(TokenErrorVariants) }
  \cup { Arithmetic(a) : a \in Range(ArithmeticErrorVariants) }
  \cup { Transactional(t) : t \in Range(TransactionalErrorVariants) }
  \cup { UseCaseFungibles(fe) : fe \in Range(FungiblesErrorVariants) }
  \cup { Unspecified(a, b, c) :
           a \in TopBytes, b \in PayloadBytes, c \in PayloadBytes }

NoError == Val("", "", "", <<>>)
NoValue == [lo |-> -1, hi |-> -1]

\* ------------------------------------------------------- SCALE encoding
\* Variant of EncodeFungiblesError that numbers the variants from one.
EncodeFungiblesErrorOneBased(name) ==
  << IndexOf(FungiblesErrorVariants, name) + 1 >>

\* derive(Encode) on a field-less enum: one byte, the variant index.
EncodeFungiblesError(name) == << IndexOf(FungiblesErrorVariants, name) >>
EncodeTokenError(name) == << IndexOf(TokenErrorVariants, name) >>
EncodeArithmeticError(name) == << IndexOf(ArithmeticErrorVariants, name) >>
EncodeTransactionalError(name) ==
  << IndexOf(TransactionalErrorVariants, name) >>

\* derive(Encode) on UseCaseError: index byte, then the payload.
EncodeUseCaseError(sub, leaf) ==
  << IndexOf(UseCaseErrorVariants, sub) >> \o EncodeFungiblesError(leaf)

\* Variant of EncodeModuleError that writes the fields in reverse order.
EncodeModuleErrorSwapped(f) == << f[2], f[1] >>

\* Variant of EncodeModuleError for two-byte (u16) fields.
EncodeModuleErrorU16(f) == << f[1], 0, f[2], 0 >>

\* derive(Encode) on struct ModuleError: the fields in order.
EncodeModuleError(f) == << f[1], f[2] >>

\* derive(Encode) on PopApiError: index byte, then the payload.
EncodePopApiError(v) ==
  CASE v.variant = "Other" -> << 0, v.f[1] >>
    [] v.variant = "CannotLookup" -> << 1 >>
    [] v.variant = "BadOrigin" -> << 2 >>
    [] v.variant = "Module" -> << 3 >> \o EncodeModuleError(v.f)
    [] v.variant = "ConsumerRemaining" -> << 4 >>
    [] v.variant = "NoProviders" -> << 5 >>
    [] v.variant = "TooManyConsumers" -> << 6 >>
    [] v.variant = "Token" -> << 7 >> \o EncodeTokenError(v.sub)
    [] v.variant = "Arithmetic" -> << 8 >> \o EncodeArithmeticError(v.sub)
    [] v.variant = "Transactional" ->
         << 9 >> \o EncodeTransactionalError(v.sub)
    [] v.variant = "Exhausted" -> << 10 >>
    [] v.variant = "Corruption" -> << 11 >>
    [] v.variant = "Unavailable" -> << 12 >>
    [] v.variant = "RootNotAllowed" -> << 13 >>
    [] v.variant = "UseCase" -> << 14 >> \o EncodeUseCaseError(v.sub, v.leaf)
    [] v.variant = "Unspecified" -> << 15, v.f[1], v.f[2], v.f[3] >>

\* Variant of Resize that keeps one byte too few of the original.
ResizeShort(s, newLen, fill) ==
  [ i \in 1..newLen |-> IF i <= Len(s) /\ i < newLen THEN s[i] ELSE fill ]

\* Vec::resize(new_len, fill): truncate, or extend with fill.
Resize(s, newLen, fill) ==
  [ i \in 1..newLen |-> IF i <= Len(s) THEN s[i] ELSE fill ]

\* A u32 is held as two 16-bit limbs, n = lo + 65536 * hi, so that the whole
\* range 0..2^32-1 is representable.
U32(lo, hi) == [lo |-> lo, hi |-> hi]

\* Variant of EncodeU32 that writes the bytes big-endian.
EncodeU32BigEndian(n) ==
  << (n.hi \div 256) % 256, n.hi % 256, (n.lo \div 256) % 256, n.lo % 256 >>

\* u32::encode: the four little-endian bytes.
EncodeU32(n) ==
  << n.lo % 256, (n.lo \div 256) % 256, n.hi % 256, (n.hi \div 256) % 256 >>

\* ------------------------------------------------------- SCALE decoding
\* A decoder takes the remaining input and yields either
\*   [ok |-> TRUE, val |-> decoded, rest |-> remaining input]  or  Err.
Err == [ok |-> FALSE]
Ok(val, rest) == [ok |-> TRUE, val |-> val, rest |-> rest]

\* Variant of DecodeU8 that does not advance the input.
DecodeU8NoAdvance(in) == IF Len(in) = 0 THEN Err ELSE Ok(in[1], in)

\* u8::decode: one byte, Err at end of input.
DecodeU8(in) == IF Len(in) = 0 THEN Err ELSE Ok(in[1], Tail(in))

\* Variant of DecodeU32 that reads the bytes big-endian.
DecodeU32BigEndian(in) ==
  IF Len(in) < 4 THEN Err
  ELSE Ok(U32(in[4] + 256 * in[3], in[2] + 256 * in[1]),
          SubSeq(in, 5, Len(in)))

\* u32::decode: four little-endian bytes, Err when fewer remain.
DecodeU32(in) ==
  IF Len(in) < 4 THEN Err
  ELSE Ok(U32(in[1] + 256 * in[2], in[3] + 256 * in[4]),
          SubSeq(in, 5, Len(in)))

\* derive(Decode) on a field-less enum: read the index byte, Err when it
\* names no variant.
DecodeUnitEnum(variants, in) ==
  LET d == DecodeU8(in) IN
  IF ~d.ok THEN Err
  ELSE IF d.val < Len(variants) THEN Ok(variants[d.val + 1], d.rest)
  ELSE Err

DecodeFungiblesError(in) == DecodeUnitEnum(FungiblesErrorVariants, in)
DecodeTokenError(in) == DecodeUnitEnum(TokenErrorVariants, in)
DecodeArithmeticError(in) == DecodeUnitEnum(ArithmeticErrorVariants, in)
DecodeTransactionalError(in) == DecodeUnitEnum(TransactionalErrorVariants, in)

\* derive(Decode) on UseCaseError; val is <<sub, leaf>>.
DecodeUseCaseError(in) ==
  LET d == DecodeU8(in) IN
  IF ~d.ok THEN Err
  ELSE IF d.val = 0
    THEN LET fe == DecodeFungiblesError(d.rest) IN
         IF fe.ok THEN Ok(<<"Fungibles", fe.val>>, fe.rest) ELSE Err
  ELSE Err

\* derive(Decode) on struct ModuleError; val is <<index, error>>.
DecodeModuleError(in) ==
  LET i == DecodeU8(in) IN
  IF ~i.ok THEN Err
  ELSE LET e == DecodeU8(i.rest) IN
       IF ~e.ok THEN Err ELSE Ok(<<i.val, e.val>>, e.rest)

\* derive(Decode) on PopApiError.
DecodePopApiError(in) ==
  LET d == DecodeU8(in) IN
  IF ~d.ok THEN Err
  ELSE CASE d.val = 0 ->
              LET x == DecodeU8(d.rest) IN
              IF x.ok THEN Ok(Other(x.val), x.rest) ELSE Err
         [] d.val = 3 ->
              LET m == DecodeModuleError(d.rest) IN
              IF m.ok THEN Ok(Module(m.val[1], m.val[2]), m.rest) ELSE Err
         [] d.val = 7 ->
              LET t == DecodeTokenError(d.rest) IN
              IF t.ok THEN Ok(Token(t.val), t.rest) ELSE Err
         [] d.val = 8 ->
              LET a == DecodeArithmeticError(d.rest) IN
              IF a.ok THEN Ok(Arithmetic(a.val), a.rest) ELSE Err
         [] d.val = 9 ->
              LET t == DecodeTransactionalError(d.rest) IN
              IF t.ok THEN Ok(Transactional(t.val), t.rest) ELSE Err
         [] d.val = 14 ->
              LET u == DecodeUseCaseError(d.rest) IN
              IF u.ok THEN Ok(Val("UseCase", u.val[1], u.val[2], <<>>), u.rest)
              ELSE Err
         [] d.val = 15 ->
              LET a == DecodeU8(d.rest) IN
              IF ~a.ok THEN Err
              ELSE LET b == DecodeU8(a.rest) IN
                   IF ~b.ok THEN Err
                   ELSE LET c == DecodeU8(b.rest) IN
                        IF ~c.ok THEN Err
                        ELSE Ok(Unspecified(a.val, b.val, c.val), c.rest)
         [] d.val \in {1, 2, 4, 5, 6, 10, 11, 12, 13} ->
              Ok(Unit(PopApiErrorVariants[d.val + 1]), d.rest)
         [] OTHER -> Err

\* ------------------------------------------------------------ behaviour
\* The 4-byte inputs a caller may hand to the decoder, as u32 values.
WireInputs ==
  { U32(b0 + 256 * b1, b2 + 256 * b3) :
      b0 \in TopBytes, b1 \in PayloadBytes, b2 \in PayloadBytes,
      b3 \in PayloadBytes }

Init ==
  /\ calls = 0
  /\ serialized = <<>>
  /\ encoded = <<>>
  /\ wire = <<>>
  /\ \/ /\ start = "error"
        /\ origError \in PopApiErrors
        /\ origValue = NoValue
        /\ error = origError
        /\ value = NoValue
        /\ pc = "to_u32"
     \/ /\ start = "value"
        /\ origValue \in WireInputs
        /\ origError = NoError
        /\ value = origValue
        /\ error = NoError
        /\ pc = "to_error"

\* fn encode_and_decode_to_u32(error: PopApiError) -> u32
encode_and_decode_to_u32 ==
  /\ pc = "to_u32"
  /\ calls < MaxCalls
  /\ LET enc == EncodePopApiError(error)
         res == Resize(enc, WireLen, 0)
         r   == DecodeU32(res)
     IN /\ serialized' = enc
        /\ encoded' = res
        /\ IF r.ok
             THEN value' = r.val /\ pc' = "to_error"
             ELSE value' = NoValue /\ pc' = "panic"
  /\ calls' = calls + 1
  /\ UNCHANGED <<start, origError, origValue, error, wire>>

\* fn encode_and_decode_to_pop_api_error(value: u32) -> PopApiError
encode_and_decode_to_pop_api_error ==
  /\ pc = "to_error"
  /\ calls < MaxCalls
  /\ LET enc == EncodeU32(value)
         r   == DecodePopApiError(enc)
     IN /\ wire' = enc
        /\ IF r.ok
             THEN error' = r.val /\ pc' = "to_u32"
             ELSE error' = NoError /\ pc' = "panic"
  /\ calls' = calls + 1
  /\ UNCHANGED <<start, origError, origValue, serialized, encoded, value>>

Next == encode_and_decode_to_u32 \/ encode_and_decode_to_pop_api_error

Spec == Init /\ [][Next]_vars

\* ------------------------------------------------------------ properties
\* The four bytes of a caller-supplied u32, first byte first.
OrigBytes ==
  << origValue.lo % 256, origValue.lo \div 256,
     origValue.hi % 256, origValue.hi \div 256 >>

\* The encoder has returned for the caller's taxonomy value.
Encoded == start = "error" /\ calls >= 1
\* The decoder has then been called on the encoder's result.
RoundTripped == start = "error" /\ calls >= 2
\* The decoder has been called on the caller's u32.
Decoded == start = "value" /\ calls >= 1
\* The encoder has then been called on the decoder's result.
ReEncoded == start = "value" /\ calls >= 2 /\ pc # "panic"

\* C1: decoding the u32 encoding of any constructible PopApiError value
\* returns that value.
C1_RoundTrip ==
  RoundTripped => (pc # "panic" /\ error = origError)

C1_Witness ==
  /\ RoundTripped
  /\ origError = UseCaseFungibles("Unknown")
  /\ error = origError

\* C2: encode_and_decode_to_pop_api_error returns a value for every u32 and
\* never panics.
C2_DecodeTotal ==
  Decoded => (pc # "panic" /\ error \in PopApiErrors)

\* C3: a 4-byte input whose first byte d is not a declared PopApiError
\* position decodes to Unspecified{d, 0, 0}.
C3_TopLevelFallback ==
  (Decoded /\ calls = 1 /\ OrigBytes[1] >= Len(PopApiErrorVariants))
    => error = Unspecified(OrigBytes[1], 0, 0)

\* The declared variants of the nested enum selected by a first byte.
NestedVariants(d) ==
  CASE d = 7 -> TokenErrorVariants
    [] d = 8 -> ArithmeticErrorVariants
    [] d = 9 -> TransactionalErrorVariants
    [] d = 14 -> UseCaseErrorVariants

\* C4: a 4-byte input whose first byte selects Token, Arithmetic,
\* Transactional or UseCase and whose second byte is not a declared position
\* of that nested enum decodes, without failing, to an Unspecified value
\* carrying the first byte and the second byte.
C4_NestedFallback ==
  (/\ Decoded /\ calls = 1
   /\ OrigBytes[1] \in {7, 8, 9, 14}
   /\ OrigBytes[2] >= Len(NestedVariants(OrigBytes[1])))
    => /\ pc # "panic"
       /\ error.variant = "Unspecified"
       /\ error.f[1] = OrigBytes[1]
       /\ error.f[2] = OrigBytes[2]

\* The payload bytes the layout rule prescribes for a value: the nested
\* discriminants, outermost first, then the byte fields in order.
LayoutPayload(v) ==
  (IF v.variant = "Token" THEN << IndexOf(TokenErrorVariants, v.sub) >>
   ELSE IF v.variant = "Arithmetic"
     THEN << IndexOf(ArithmeticErrorVariants, v.sub) >>
   ELSE IF v.variant = "Transactional"
     THEN << IndexOf(TransactionalErrorVariants, v.sub) >>
   ELSE IF v.variant = "UseCase"
     THEN << IndexOf(UseCaseErrorVariants, v.sub),
             IndexOf(FungiblesErrorVariants, v.leaf) >>
   ELSE << >>) \o v.f

\* C5: the encoder output is exactly 4 bytes: the zero-based declaration
\* position of the variant, the payload bytes in declaration order, then
\* zeros; Module{1,2} gives [3,1,2,0] and
\* UseCase(Fungibles(InsufficientBalance)) gives [14,0,3,0].
C5_EncodeLayout ==
  Encoded =>
    LET pay == LayoutPayload(origError) IN
    /\ Len(encoded) = 4
    /\ encoded[1] = IndexOf(PopApiErrorVariants, origError.variant)
    /\ \A i \in 2..4 :
         encoded[i] = IF i - 1 <= Len(pay) THEN pay[i - 1] ELSE 0
    /\ origError = Module(1, 2) => encoded = <<3, 1, 2, 0>>
    /\ origError = UseCaseFungibles("InsufficientBalance")
         => encoded = <<14, 0, 3, 0>>

C5_Witness ==
  /\ Encoded
  /\ origError = UseCaseFungibles("InsufficientBalance")
  /\ encoded = <<14, 0, 3, 0>>

\* The u32 the encoder helper computes for a value.
ToU32(v) == DecodeU32(Resize(EncodePopApiError(v), WireLen, 0)).val

\* C6: two different PopApiError values never have the same u32 encoding.
C6_EncodeInjective ==
  Encoded => \A w \in PopApiErrors : w # origError => ToU32(w) # value

C6_Witness ==
  /\ Encoded
  /\ origError = Unspecified(0, 0, 0)
  /\ value = U32(15, 0)

\* C7: Unspecified{a, b, c} encodes to exactly [15, a, b, c], and decoding
\* that reproduces the record.
C7_UnspecifiedEncoding ==
  (start = "error" /\ origError.variant = "Unspecified") =>
    /\ calls >= 1 => encoded = <<15>> \o origError.f
    /\ calls >= 2 =>
         /\ pc # "panic"
         /\ error.variant = "Unspecified"
         /\ error.f = origError.f

C7_Witness ==
  /\ RoundTripped
  /\ origError = Unspecified(3, 2, 1)
  /\ encoded = <<15, 3, 2, 1>>
  /\ error = Unspecified(3, 2, 1)

\* C8: the serialized form of every PopApiError value is 1 to 4 bytes long
\* before resizing, so resize(4, 0) only appends zeros and discards nothing.
C8_NoTruncation ==
  Encoded =>
    /\ Len(serialized) \in 1..4
    /\ Len(encoded) = 4
    /\ \A i \in 1..4 :
         encoded[i] = IF i <= Len(serialized) THEN serialized[i] ELSE 0

C8_Witness ==
  /\ Encoded
  /\ origError.variant = "Module"
  /\ Len(serialized) = 3
  /\ encoded[4] = 0

\* C9: the u32 returned by the encoder is the little-endian value of its 4
\* bytes, it is within the u32 range and its decoding never fails, and the
\* decoder re-serializes it to the same 4 bytes in the same order.
C9_LittleEndianView ==
  Encoded =>
    /\ calls = 1 => pc # "panic"
    /\ value.lo = encoded[1] + 256 * encoded[2]
    /\ value.hi = encoded[3] + 256 * encoded[4]
    /\ value.lo \in 0..65535
    /\ value.hi \in 0..65535
    /\ calls >= 2 => wire = encoded

C9_Witness ==
  /\ RoundTripped
  /\ encoded = <<15, 1, 2, U8Max>>
  /\ value = U32(15 + 256, 2 + 256 * U8Max)
  /\ wire = encoded

\* Number of payload bytes of the variant a first byte selects.
PayloadLen(d) ==
  CASE d \in {0, 7, 8, 9} -> 1
    [] d \in {3, 14} -> 2
    [] d = 15 -> 3
    [] OTHER -> 0

\* b with every byte after the selected variant's payload replaced by t.
WithTrailing(b, t) ==
  [ i \in 1..4 |-> IF i <= 1 + PayloadLen(b[1]) THEN b[i] ELSE t ]

\* C10: when decode succeeds on b, the decoded value does not depend on the
\* bytes after the selected variant's payload, encode(decode(b)) is b with
\* those bytes replaced by 0, and so it equals b exactly when they are all 0.
C10_DecodeIgnoresTrailing ==
  /\ (Decoded /\ calls = 1 /\ pc # "panic") =>
       \A t \in PayloadBytes :
         LET r == DecodePopApiError(WithTrailing(OrigBytes, t)) IN
         r.ok /\ r.val = error
  /\ ReEncoded =>
       /\ encoded = WithTrailing(OrigBytes, 0)
       /\ (encoded = OrigBytes) <=>
            (\A i \in 1..4 : i > 1 + PayloadLen(OrigBytes[1])
                               => OrigBytes[i] = 0)
       /\ (value = origValue) <=> (encoded = OrigBytes)
       /\ OrigBytes = <<1, 5, 0, 0>> =>
            (error = Unit("CannotLookup") /\ encoded = <<1, 0, 0, 0>>)

C10_Witness ==
  /\ ReEncoded
  /\ OrigBytes = <<1, 5, 0, 0>>
  /\ error = Unit("CannotLookup")
  /\ encoded = <<1, 0, 0, 0>>
  /\ value # origValue
====
